---- MODULE Spec2Model ----
(***************************************************************************)
(* Model of RadialStitcher (src/cpp/RadialStitcher.cpp): the blend mask    *)
(* builder, the match trimming of getFeatures, the consensus search of     *)
(* estimateHomography, the compositor blend and the Stitch loop.           *)
(*                                                                         *)
(* Real-valued quantities (keypoint coordinates, translations) are kept    *)
(* as integers counted in 1/SubPx of a pixel, so that a coordinate with a  *)
(* fractional part is representable and the double -> int conversions of   *)
(* the code are real truncations.  Mask values are rationals <<num, den>>. *)
(* C++ indices are 0-based; the sequences here are 1-based, so vec[k] of   *)
(* the code is vec[k + 1] here.                                            *)
(***************************************************************************)
EXTENDS Integers, Sequences, FiniteSets, TLC

VARIABLES
    \* ---- RadialStitcher members used by getFeatures / estimateHomography
    keypoints1, keypoints2, approxMatches, matches,
    \* ---- control position of the modelled call
    pc,
    \* ---- locals of estimateHomography
    nMatches, trials, xTrans, yTrans, xQual, yQual, concensus, maxConcensus,
    bestX, bestY, i, featureNumber, j, homography, ret,
    \* ---- buildBlendMask: sizes of img and mask, the mask buffer
    imgSize, maskSize, mask,
    \* ---- blend: the four buffers (one row of pixels each)
    \*      canvasIn is the canvas as it was handed to blend
    newImage, canvas, newMask, canvasMask, canvasIn,
    \* ---- Stitch: numImages, src[0].rows, out.rows, transforms, loop index,
    \*      and, per frame handed to blend so far, its index and the H used
    numImages, frameRows, outRows, transforms, si, blended

estVars == <<nMatches, trials, xTrans, yTrans, xQual, yQual, concensus,
             maxConcensus, bestX, bestY, i, featureNumber, j, homography, ret>>
featVars == <<keypoints1, keypoints2, approxMatches, matches>>
maskVars == <<imgSize, maskSize, mask>>
blendVars == <<newImage, canvas, newMask, canvasMask, canvasIn>>
stitchVars == <<numImages, frameRows, outRows, transforms, si, blended>>
vars == <<featVars, pc, estVars, maskVars, blendVars, stitchVars>>

----------------------------------------------------------------------------
(* Bounds of the model *)

\* coordinates are counted in 1/SubPx pixel
SubPx == 2
\* longest match list handed to estimateHomography
MaxMatches == 3
\* longest list returned by the matcher in the trimming model
MaxApprox == 3
\* largest img / mask side in the mask model
MaxDim == 4
\* widest row in the blend model
MaxCols == 1
\* most images in a Stitch run
MaxImages == 4
\* longest match list of one frame pair in a Stitch run
MaxPairMatches == 1

----------------------------------------------------------------------------
(* Arithmetic helpers *)

Abs(n) == IF n < 0 THEN -n ELSE n
Min(a, b) == IF a < b THEN a ELSE b

\* a whole number of pixels, in sub-pixel units
Px(n) == n * SubPx

\* C++ int division: truncation toward zero (b > 0)
TruncDivZero(a, b) == IF a >= 0 THEN a \div b ELSE -((-a) \div b)

\* a conversion that keeps the real's value instead of its whole part
TruncKeepsFraction(q) == q
\* double -> int conversion of a real kept in sub-pixel units
\* ("bestX = xTrans" with int bestX, double xTrans)
Trunc(q) == TruncDivZero(q, SubPx)

----------------------------------------------------------------------------
(* estimateHomography, src/cpp/RadialStitcher.cpp:368-478 *)

\* rand() % nMatches: the value of rand() is implementation-defined, so the
\* draw is any index of [0, nMatches)
RandMod(n) == 0 .. (n - 1)

\* xCur - xNew with the operands swapped (wrong sign)
ShiftSwapped(m) ==
    <<keypoints1[m.queryIdx + 1][1] - keypoints2[m.trainIdx + 1][1],
      keypoints1[m.queryIdx + 1][2] - keypoints2[m.trainIdx + 1][2]>>
\* (x, y) shift of one match: keypoints2[trainIdx].pt - keypoints1[queryIdx].pt
Shift(m) ==
    <<keypoints2[m.trainIdx + 1][1] - keypoints1[m.queryIdx + 1][1],
      keypoints2[m.trainIdx + 1][2] - keypoints1[m.queryIdx + 1][2]>>

\* double tolerance = 3.0 pixels
tolerance == Px(3)

\* fabs(a - b) < tolerance
Within(a, b) == Abs(a - b) < tolerance

EstEnter ==
    /\ pc = "est_enter"
    /\ nMatches' = Len(matches)
    /\ trials' = Len(matches)
    /\ xTrans' = 0 /\ yTrans' = 0
    /\ xQual' = 0 /\ yQual' = 0
    /\ concensus' = 0 /\ maxConcensus' = 0
    /\ bestX' = 0 /\ bestY' = 0
    /\ i' = 0
    /\ pc' = "trial_loop"
    /\ UNCHANGED <<featureNumber, j, homography, ret>>
    /\ UNCHANGED <<featVars, maskVars, blendVars, stitchVars>>

TrialBegin ==
    /\ pc = "trial_loop"
    /\ i < trials
    /\ xQual' = 0 /\ yQual' = 0 /\ concensus' = 0
    /\ \E f \in RandMod(nMatches) :
          /\ featureNumber' = f
          /\ xTrans' = Shift(matches[f + 1])[1]
          /\ yTrans' = Shift(matches[f + 1])[2]
    /\ j' = 0
    /\ pc' = "check_loop"
    /\ UNCHANGED <<nMatches, trials, maxConcensus, bestX, bestY, i, homography, ret>>
    /\ UNCHANGED <<featVars, maskVars, blendVars, stitchVars>>

\* The flags a match sets: xQual and yQual are only ever raised inside the
\* j loop (they are cleared once per trial, at its top)
XQualAfter(q, m) == IF Within(xTrans, Shift(m)[1]) THEN 1 ELSE q
YQualAfter(q, m) == IF Within(yTrans, Shift(m)[2]) THEN 1 ELSE q

CheckMatch ==
    /\ pc = "check_loop"
    /\ j < nMatches
    /\ IF j = featureNumber
          THEN UNCHANGED <<xQual, yQual, concensus>>
          ELSE /\ xQual' = XQualAfter(xQual, matches[j + 1])
               /\ yQual' = YQualAfter(yQual, matches[j + 1])
               /\ concensus' = IF xQual' = 1 /\ yQual' = 1
                                  THEN concensus + 1 ELSE concensus
    /\ j' = j + 1
    /\ UNCHANGED <<nMatches, trials, xTrans, yTrans, maxConcensus, bestX, bestY,
                   i, featureNumber, homography, ret, pc>>
    /\ UNCHANGED <<featVars, maskVars, blendVars, stitchVars>>

TrialEnd ==
    /\ pc = "check_loop"
    /\ j >= nMatches
    /\ IF concensus > maxConcensus
          THEN /\ maxConcensus' = concensus
               /\ bestX' = Trunc(xTrans)
               /\ bestY' = Trunc(yTrans)
          ELSE UNCHANGED <<maxConcensus, bestX, bestY>>
    /\ i' = i + 1
    /\ pc' = "trial_loop"
    /\ UNCHANGED <<nMatches, trials, xTrans, yTrans, xQual, yQual, concensus,
                   featureNumber, j, homography, ret>>
    /\ UNCHANGED <<featVars, maskVars, blendVars, stitchVars>>

\* "If no good concensus, just pick the most recent reference"
FallbackAxis(best, last) == IF best = 0 THEN Trunc(last) ELSE best

EstReturn ==
    /\ pc = "trial_loop"
    /\ i >= trials
    /\ bestX' = FallbackAxis(bestX, xTrans)
    /\ bestY' = FallbackAxis(bestY, yTrans)
    /\ homography' = <<bestX', bestY'>>
    /\ ret' = 0
    /\ pc' = "est_return"
    /\ UNCHANGED <<nMatches, trials, xTrans, yTrans, xQual, yQual, concensus,
                   maxConcensus, i, featureNumber, j>>
    /\ UNCHANGED <<featVars, maskVars, blendVars, stitchVars>>

----------------------------------------------------------------------------
(* getFeatures, src/cpp/RadialStitcher.cpp:297-363 *)

\* The detector and the matcher are OpenCV's: their output is an input of
\* the model, one entry [t |-> shift of the pair, d |-> distance] per row
\* of descriptors1.  Keypoint k of the new image sits at BasePt(k).
BasePt(k) == <<Px(20 + 10 * k), Px(30)>>

DetectedKeypoints1(fs) == [k \in 1 .. Len(fs) |-> BasePt(k)]
DetectedKeypoints2(fs) ==
    [k \in 1 .. Len(fs) |-> <<BasePt(k)[1] + fs[k].t[1], BasePt(k)[2] + fs[k].t[2]>>]
MatcherOutput(fs) ==
    [k \in 1 .. Len(fs) |-> [queryIdx |-> k - 1, trainIdx |-> k - 1, distance |-> fs[k].d]]

\* the least element of a non-empty set of numbers
SetMin(S) == CHOOSE m \in S : \A n \in S : m <= n

\* "double minDist = 100; ... if(dist < minDist) minDist = dist;"
MinDist(ms) == SetMin({ms[k].distance : k \in 1 .. Len(ms)} \cup {100})

\* the matches of ms with distance < limit, in order (the second loop)
RECURSIVE KeepBelow(_, _)
KeepBelow(ms, limit) ==
    IF ms = <<>> THEN <<>>
    ELSE IF Head(ms).distance < limit
            THEN <<Head(ms)>> \o KeepBelow(Tail(ms), limit)
            ELSE KeepBelow(Tail(ms), limit)

\* "if(approxMatches[i].distance < 3 * minDist) matches.push_back(...)"
TrimMatches(ms) == KeepBelow(ms, 3 * MinDist(ms))

\* one call of getFeatures on the detector/matcher output fs
GetFeaturesOn(fs) ==
    /\ keypoints1' = DetectedKeypoints1(fs)
    /\ keypoints2' = DetectedKeypoints2(fs)
    /\ approxMatches' = MatcherOutput(fs)
    /\ matches' = TrimMatches(MatcherOutput(fs))

\* all lists over S of length 0 .. n
SeqsUpTo(S, n) == UNION {[1 .. k -> S] : k \in 0 .. n}

\* shifts and distances of the trimming model
TrimKinds ==
    {[t |-> <<Px(5), -Px(3)>>, d |-> d] : d \in {0, 20, 70, 150, 400}}

GetFeatures ==
    /\ pc = "feat_enter"
    /\ \E fs \in SeqsUpTo(TrimKinds, MaxApprox) : GetFeaturesOn(fs)
    /\ ret' = 0
    /\ pc' = "feat_return"
    /\ UNCHANGED <<nMatches, trials, xTrans, yTrans, xQual, yQual, concensus,
                   maxConcensus, bestX, bestY, i, featureNumber, j, homography>>
    /\ UNCHANGED <<maskVars, blendVars, stitchVars>>

----------------------------------------------------------------------------
(* buildBlendMask, src/cpp/RadialStitcher.cpp:258-291 *)

\* sizes are <<cols, rows>>; a mask value is the rational <<num, den>>
\* (the double num / den); the buffer is mask[y + 1][x + 1]
ZeroMask(size) == [y \in 1 .. size[2] |-> [x \in 1 .. size[1] |-> <<0, 1>>]]

\* "distLeft = abs(x + 1)", "distTop = abs(y + 1)"
NearDist(p) == Abs(p + 1)
\* "distRight = abs(nCols - x - 1)", "distBottom = abs(nRows - y - 1)"
FarDist(p, n) == Abs(n - p - 1)

MaskMaxDist(nRows, nCols) == IF nRows > nCols THEN nCols \div 2 ELSE nRows \div 2

MaskValue(x, y, nRows, nCols) ==
    LET yDist == Min(NearDist(y), FarDist(y, nRows))
        xDist == Min(NearDist(x), FarDist(x, nCols))
    IN  <<Min(xDist, yDist), MaskMaxDist(nRows, nCols)>>

BuildBlendMask ==
    /\ pc = "mask_enter"
    /\ IF imgSize # maskSize
          THEN /\ ret' = -1
               /\ UNCHANGED mask
          ELSE /\ mask' = [y \in 1 .. maskSize[2] |->
                              [x \in 1 .. maskSize[1] |->
                                  MaskValue(x - 1, y - 1, maskSize[2], maskSize[1])]]
               /\ ret' = 0
    /\ pc' = "mask_return"
    /\ UNCHANGED <<imgSize, maskSize>>
    /\ UNCHANGED <<nMatches, trials, xTrans, yTrans, xQual, yQual, concensus,
                   maxConcensus, bestX, bestY, i, featureNumber, j, homography>>
    /\ UNCHANGED <<featVars, blendVars, stitchVars>>

----------------------------------------------------------------------------
(* blend, src/cpp/RadialStitcher.cpp:484-529 *)

\* A pixel is <<blue, green, red>> of uchar; a buffer is one row of pixels,
\* buffer[x + 1] being the pixel at column x.  Mask values are rationals.

\* aN + aC == 0, for aN = n[1]/n[2] and aC = c[1]/c[2]
AlphaSumZero(aN, aC) == aN[1] * aC[2] + aC[1] * aN[2] = 0

\* (aN * new + aC * can) / (aN + aC), stored into a uchar (truncated)
BlendChannel(aN, aC, new, can) ==
    (aN[1] * aC[2] * new + aC[1] * aN[2] * can) \div (aN[1] * aC[2] + aC[1] * aN[2])

\* 0.0 / 0.0 is NaN, and converting NaN to uchar is undefined: the stored
\* byte is whatever the build produces
UndefinedUchar == {0, 128, 255}

\* the empty-canvas branch copying the sentinel channel only
CopiedBlueOnly(new, can) == <<new[1], can[2], can[3]>>
\* "rowCan[3*x] = rowNew[3*x]; rowCan[3*x + 1] = ...; rowCan[3*x + 2] = ..."
Copied(new, can) == <<new[1], new[2], new[3]>>

\* the values one canvas pixel can hold after the loop body ran on it
BlendPixel(can, new, aN, aC) ==
    IF can[1] # 0 /\ new[1] # 0
       THEN IF AlphaSumZero(aN, aC)
               THEN {<<b, g, r>> : b \in UndefinedUchar, g \in UndefinedUchar,
                                   r \in UndefinedUchar}
               ELSE {<<BlendChannel(aN, aC, new[1], can[1]),
                       BlendChannel(aN, aC, new[2], can[2]),
                       BlendChannel(aN, aC, new[3], can[3])>>}
       ELSE IF ~(can[1] > 0)
               THEN {Copied(new, can)}
               ELSE {can}

\* the rows the canvas can hold after its first n pixels were processed
RECURSIVE BlendRows(_)
BlendRows(n) ==
    IF n = 0 THEN {<<>>}
    ELSE {Append(r, p) : r \in BlendRows(n - 1),
                         p \in BlendPixel(canvas[n], newImage[n], newMask[n], canvasMask[n])}

Blend ==
    /\ pc = "blend_enter"
    /\ IF Len(newImage) # Len(canvas)
          THEN /\ ret' = -1
               /\ UNCHANGED canvas
          ELSE /\ canvas' \in BlendRows(Len(canvas))
               /\ ret' = 0
    /\ pc' = "blend_return"
    /\ UNCHANGED <<newImage, newMask, canvasMask, canvasIn>>
    /\ UNCHANGED <<nMatches, trials, xTrans, yTrans, xQual, yQual, concensus,
                   maxConcensus, bestX, bestY, i, featureNumber, j, homography>>
    /\ UNCHANGED <<featVars, maskVars, stitchVars>>

----------------------------------------------------------------------------
(* Stitch, src/cpp/RadialStitcher.cpp:533-616 *)

\* transforms[k + 1] is the translation column <<x, y>> of transforms[k], in
\* pixels.  The warps and the pixel work of blend are OpenCV calls on the
\* canvas; of them the model keeps which frames were handed to blend.

\* "cv::Mat::zeros(1.2 * first.rows, ...)": the double is truncated to int rows
CanvasRows(rows) == (12 * rows) \div 10

\* "double yCenter = -first.rows/2 + out.rows/2" in int arithmetic
YCenter(rows, canvasRows) == TruncDivZero(-rows, 2) + TruncDivZero(canvasRows, 2)

\* C = Id with only the translation of the left neighbour (H dropped)
ChainedWithoutH(prev, H) == prev
\* C = Id; C += transforms[i - 1] translation; C += H translation
Chained(prev, H) == <<prev[1] + H[1], prev[2] + H[2]>>

StitchBegin ==
    /\ pc = "stitch_enter"
    /\ outRows' = CanvasRows(frameRows)
    /\ transforms' = <<<<0, YCenter(frameRows, CanvasRows(frameRows))>>>>
    /\ si' = 1
    /\ pc' = "stitch_loop"
    /\ UNCHANGED <<numImages, frameRows, blended>>
    /\ UNCHANGED <<featVars, estVars, maskVars, blendVars>>

\* shifts and distances the detector/matcher can return for a frame pair
PairKinds ==
    {[t |-> <<Px(10), 0>>, d |-> 50], [t |-> <<Px(8), 0>>, d |-> 50],
     [t |-> <<Px(12), 0>>, d |-> 50], [t |-> <<Px(3), -Px(2)>>, d |-> 50]}

\* "getFeatures(curr, left); ... H = Id;" then estimateHomography is entered
StitchGetFeatures ==
    /\ pc = "stitch_loop"
    /\ si < numImages
    /\ \E fs \in SeqsUpTo(PairKinds, MaxPairMatches) : GetFeaturesOn(fs)
    /\ homography' = <<0, 0>>
    /\ pc' = "est_enter"
    /\ UNCHANGED <<nMatches, trials, xTrans, yTrans, xQual, yQual, concensus,
                   maxConcensus, bestX, bestY, i, featureNumber, j, ret>>
    /\ UNCHANGED <<maskVars, blendVars, stitchVars>>

\* the rest of the loop body once estimateHomography returned (its return
\* value is not looked at)
StitchPlace ==
    /\ pc = "est_return"
    /\ transforms' = Append(transforms, Chained(transforms[si], homography))
    /\ blended' = Append(blended, [frame |-> si, H |-> homography])
    /\ si' = si + 1
    /\ pc' = "stitch_loop"
    /\ UNCHANGED <<numImages, frameRows, outRows>>
    /\ UNCHANGED <<featVars, estVars, maskVars, blendVars>>

StitchEnd ==
    /\ pc = "stitch_loop"
    /\ si >= numImages
    /\ pc' = "stitch_done"
    /\ UNCHANGED <<featVars, estVars, maskVars, blendVars, stitchVars>>

----------------------------------------------------------------------------
(* Initial states and specifications *)

\* values of the variables of a part of the program that is not running
EstIdle ==
    /\ nMatches = 0 /\ trials = 0 /\ xTrans = 0 /\ yTrans = 0
    /\ xQual = 0 /\ yQual = 0 /\ concensus = 0 /\ maxConcensus = 0
    /\ bestX = 0 /\ bestY = 0 /\ i = 0 /\ featureNumber = 0 /\ j = 0
    /\ homography = <<0, 0>> /\ ret = 0
FeatIdle ==
    /\ keypoints1 = <<>> /\ keypoints2 = <<>>
    /\ approxMatches = <<>> /\ matches = <<>>
MaskIdle == imgSize = <<0, 0>> /\ maskSize = <<0, 0>> /\ mask = <<>>
BlendIdle ==
    /\ newImage = <<>> /\ canvas = <<>> /\ newMask = <<>>
    /\ canvasMask = <<>> /\ canvasIn = <<>>
StitchIdle ==
    /\ numImages = 0 /\ frameRows = 0 /\ outRows = 0
    /\ transforms = <<>> /\ si = 0 /\ blended = <<>>

\* shifts of the matches handed to estimateHomography: the true shift
\* (5, -3), a far outlier, one that agrees with (5, -3) in x only, one with
\* dx = 0 that agrees in y only, a fractional one within tolerance, and
\* one exactly 3.0 away in x
EstKinds ==
    {[t |-> <<Px(5), -Px(3)>>, d |-> 10], [t |-> <<Px(50), Px(40)>>, d |-> 10],
     [t |-> <<Px(6), Px(40)>>, d |-> 10], [t |-> <<0, -Px(3)>>, d |-> 10],
     [t |-> <<Px(2) + 1, -1>>, d |-> 10], [t |-> <<Px(8), -Px(3)>>, d |-> 10]}

\* estimateHomography entered with the members getFeatures left behind
InitEst ==
    /\ \E fs \in SeqsUpTo(EstKinds, MaxMatches) :
          /\ keypoints1 = DetectedKeypoints1(fs)
          /\ keypoints2 = DetectedKeypoints2(fs)
          /\ approxMatches = MatcherOutput(fs)
          /\ matches = TrimMatches(MatcherOutput(fs))
    /\ pc = "est_enter"
    /\ EstIdle /\ MaskIdle /\ BlendIdle /\ StitchIdle

NextEst == EstEnter \/ TrialBegin \/ CheckMatch \/ TrialEnd \/ EstReturn

SpecEst == InitEst /\ [][NextEst]_vars

\* getFeatures entered
InitTrim ==
    /\ pc = "feat_enter"
    /\ FeatIdle /\ EstIdle /\ MaskIdle /\ BlendIdle /\ StitchIdle

NextTrim == GetFeatures

SpecTrim == InitTrim /\ [][NextTrim]_vars

\* buildBlendMask entered with an image and a zeroed mask of any sizes
InitMask ==
    /\ \E w \in 0 .. MaxDim, h \in 0 .. MaxDim, mw \in 0 .. MaxDim, mh \in 0 .. MaxDim :
          /\ imgSize = <<w, h>>
          /\ maskSize = <<mw, mh>>
          /\ mask = ZeroMask(<<mw, mh>>)
    /\ pc = "mask_enter"
    /\ FeatIdle /\ EstIdle /\ BlendIdle /\ StitchIdle

NextMask == BuildBlendMask

SpecMask == InitMask /\ [][NextMask]_vars

\* pixel and mask values of the blend model
PixelPool == {<<0, 0, 0>>, <<0, 7, 9>>, <<10, 20, 30>>, <<200, 100, 255>>}
AlphaPool == {<<0, 1>>, <<1, 2>>, <<1, 1>>}

\* blend entered with a new image and a canvas, each with its mask
InitBlend ==
    /\ \E nc \in 1 .. MaxCols, cc \in 1 .. MaxCols :
          /\ newImage \in [1 .. nc -> PixelPool]
          /\ newMask \in [1 .. nc -> AlphaPool]
          /\ canvas \in [1 .. cc -> PixelPool]
          /\ canvasMask \in [1 .. cc -> AlphaPool]
    /\ canvasIn = canvas
    /\ pc = "blend_enter"
    /\ FeatIdle /\ EstIdle /\ MaskIdle /\ StitchIdle

NextBlend == Blend

SpecBlend == InitBlend /\ [][NextBlend]_vars

\* heights of the first projected frame in the Stitch model
FrameRows == {5, 20, 25}

\* Stitch entered after the constructor stored the projected frames
Init ==
    /\ numImages \in 1 .. MaxImages
    /\ frameRows \in FrameRows
    /\ outRows = 0 /\ transforms = <<>> /\ si = 0 /\ blended = <<>>
    /\ pc = "stitch_enter"
    /\ FeatIdle /\ EstIdle /\ MaskIdle /\ BlendIdle

Next ==
    \/ StitchBegin \/ StitchGetFeatures
    \/ EstEnter \/ TrialBegin \/ CheckMatch \/ TrialEnd \/ EstReturn
    \/ StitchPlace \/ StitchEnd

Spec == Init /\ [][Next]_vars

----------------------------------------------------------------------------
(* Properties of estimateHomography, checked under SpecEst *)

\* the shift (5, -3) of the agreeing matches
TrueShift == <<Px(5), -Px(3)>>

\* a shift that differs from (5, -3) by far more than the tolerance on both axes
WildlyOff(t) ==
    /\ Abs(t[1] - TrueShift[1]) > 3 * tolerance
    /\ Abs(t[2] - TrueShift[2]) > 3 * tolerance

\* N >= 3 matches, N - 1 of them with shift (5, -3), one outlier at any position
OneOutlier ==
    /\ Len(matches) >= 3
    /\ \E o \in 1 .. Len(matches) :
          /\ WildlyOff(Shift(matches[o]))
          /\ \A k \in (1 .. Len(matches)) \ {o} : Shift(matches[k]) = TrueShift

\* C1: with N - 1 matches of shift (5, -3) and one far outlier, in a run in
\* which some trial drew one of the agreeing matches (the winning count is
\* then positive), estimateHomography returns (5, -3) and the winning
\* consensus count is exactly N - 2.
C1_OutlierRejected ==
    (pc = "est_return" /\ OneOutlier /\ maxConcensus > 0)
        => (homography = <<5, -3>> /\ maxConcensus = nMatches - 2)

\* match number k (0-based) agrees with the hypothesis of the running trial
\* on both axes
AgreesOnBothAxes(k) ==
    /\ Abs(xTrans - Shift(matches[k + 1])[1]) < Px(3)
    /\ Abs(yTrans - Shift(matches[k + 1])[2]) < Px(3)

\* C2: within a trial, the consensus count is incremented for match j only
\* if j is not the hypothesis match and j itself agrees with the hypothesis
\* on both axes.
C2_CountOnlyBothAxes ==
    [][(pc = "check_loop" /\ concensus' > concensus)
          => (j # featureNumber /\ AgreesOnBothAxes(j))]_vars

\* C9 as stated: trial i uses match i as its hypothesis.
C9_TrialUsesOwnMatch ==
    pc = "check_loop"
        => /\ featureNumber = i
           /\ xTrans = keypoints2[matches[i + 1].trainIdx + 1][1]
                         - keypoints1[matches[i + 1].queryIdx + 1][1]
           /\ yTrans = keypoints2[matches[i + 1].trainIdx + 1][2]
                         - keypoints1[matches[i + 1].queryIdx + 1][2]

\* C9 as amended: exactly N trials are run; the hypothesis of each trial is
\* the match drawn for it, featureNumber in [0, N), which need not be the
\* trial's own index, and the hypothesis is
\* (keypointB(f).x - keypointA(f).x, keypointB(f).y - keypointA(f).y).
C9_TrialUsesDrawnMatch ==
    /\ pc = "check_loop"
          => /\ i < nMatches
             /\ featureNumber \in 0 .. (nMatches - 1)
             /\ xTrans = keypoints2[matches[featureNumber + 1].trainIdx + 1][1]
                           - keypoints1[matches[featureNumber + 1].queryIdx + 1][1]
             /\ yTrans = keypoints2[matches[featureNumber + 1].trainIdx + 1][2]
                           - keypoints1[matches[featureNumber + 1].queryIdx + 1][2]
    /\ pc = "est_return" => (i = nMatches /\ nMatches = Len(matches))

\* the last of three trials runs on match 0, drawn again or for the first time
C9_Witness ==
    /\ pc = "check_loop" /\ nMatches = 3 /\ i = 2 /\ featureNumber = 0
    /\ xTrans = Px(50) /\ yTrans = Px(40)

\* C10: the step after the trial loop replaces a component by the last
\* trial's only if no trial improved on the initial zero consensus, and
\* otherwise returns the component of the best hypothesis.
C10_FallbackOnlyWithoutConsensus ==
    [][(pc = "trial_loop" /\ pc' = "est_return" /\ nMatches >= 1)
          => /\ (bestX = 0 \/ bestY = 0) => maxConcensus = 0
             /\ homography'[1] = IF bestX = 0 THEN Trunc(xTrans) ELSE bestX
             /\ homography'[2] = IF bestY = 0 THEN Trunc(yTrans) ELSE bestY]_vars

----------------------------------------------------------------------------
(* Properties of Stitch, checked under Spec *)

\* C3: when a frame pair has no usable match, estimateHomography returns
\* something other than its success value, and Stitch neither records a
\* transform for the frame nor hands it to blend.
C3_NoMatchesIsAnError ==
    [][(pc = "est_return" /\ nMatches = 0)
          => (ret # 0 /\ transforms' = transforms /\ blended' = blended)]_vars

\* the sum of the pairwise translations of frames 1 .. k
RECURSIVE PairwiseSum(_)
PairwiseSum(k) ==
    IF k = 0 THEN <<0, 0>>
    ELSE <<PairwiseSum(k - 1)[1] + blended[k].H[1],
           PairwiseSum(k - 1)[2] + blended[k].H[2]>>

\* the frame-0 centering offset (0, canvasHeight/2 - frame0Height/2)
Centering == <<0, outRows \div 2 - frameRows \div 2>>

\* every recorded global transform is the centering offset plus the pairwise
\* translations up to its frame, frame k being recorded k-th
TransformsAccumulate ==
    /\ Len(blended) = Len(transforms) - (IF transforms = <<>> THEN 0 ELSE 1)
    /\ \A k \in 1 .. Len(transforms) :
          /\ transforms[k] = <<Centering[1] + PairwiseSum(k - 1)[1],
                               Centering[2] + PairwiseSum(k - 1)[2]>>
          /\ k > 1 => blended[k - 1].frame = k - 1
          /\ k > 1 => transforms[k] = <<transforms[k - 1][1] + blended[k - 1].H[1],
                                        transforms[k - 1][2] + blended[k - 1].H[2]>>

\* C6: global transforms are recorded once per frame in increasing index
\* order and never modified afterwards; the transform of frame i >= 1 is the
\* transform of frame i - 1 plus the pairwise translation estimated for
\* (i, i - 1), hence the centering offset plus the sum of the pairwise
\* translations 1 .. i.
C6_TransformsChain ==
    [][/\ Len(transforms') \in {Len(transforms), Len(transforms) + 1}
       /\ \A k \in 1 .. Len(transforms) : transforms'[k] = transforms[k]
       /\ Len(transforms') = Len(transforms) + 1 =>
             /\ Len(transforms') = si'
             /\ Len(transforms) >= 1 => blended'[Len(transforms)].H = homography
       /\ TransformsAccumulate']_vars

\* four images with pairwise translations (10,0), (8,0), (12,0): frame 3 sits
\* at the centering offset + (30, 0)
C6_Witness ==
    /\ pc = "stitch_done" /\ numImages = 4 /\ frameRows = 25
    /\ Len(transforms) = 4
    /\ blended[1].H = <<10, 0>> /\ blended[2].H = <<8, 0>> /\ blended[3].H = <<12, 0>>
    /\ transforms[1] = <<0, 3>>
    /\ transforms[4] = <<30, 3>>

----------------------------------------------------------------------------
(* Properties of the trimming in getFeatures, checked under SpecTrim *)

\* the matches of ms with distance strictly below 3 x the least distance of ms
WithinThreeTimesLeast(ms) ==
    LET least == SetMin({ms[k].distance : k \in 1 .. Len(ms)})
        Good(m) == m.distance < 3 * least
    IN  IF ms = <<>> THEN <<>> ELSE SelectSeq(ms, Good)

\* C7: the retained matches are exactly those whose distance is strictly
\* less than 3 x the minimum distance over all matches the matcher returned.
C7_TrimByTrueMinimum ==
    pc = "feat_return" => matches = WithinThreeTimesLeast(approxMatches)

----------------------------------------------------------------------------
(* Properties of buildBlendMask, checked under SpecMask *)

\* C4: for W >= 2 and H >= 2 the built mask is exactly 0 at every border
\* pixel (x = 0, x = W - 1, y = 0 or y = H - 1).
C4_BorderIsZero ==
    (pc = "mask_return" /\ ret = 0 /\ maskSize[1] >= 2 /\ maskSize[2] >= 2)
        => \A y \in 1 .. maskSize[2], x \in 1 .. maskSize[1] :
              (x = 1 \/ x = maskSize[1] \/ y = 1 \/ y = maskSize[2])
                  => mask[y][x][1] = 0

----------------------------------------------------------------------------
(* Properties of blend, checked under SpecBlend *)

\* C5: a pixel populated in both the canvas and the new image whose two mask
\* weights sum to zero keeps all three canvas channels.
C5_ZeroWeightKeepsCanvas ==
    (pc = "blend_return" /\ ret = 0)
        => \A x \in 1 .. Len(canvas) :
              (canvasIn[x][1] # 0 /\ newImage[x][1] # 0
                   /\ AlphaSumZero(newMask[x], canvasMask[x]))
                  => canvas[x] = canvasIn[x]

\* C8: with equal-sized images, every pixel whose canvas channel 0 was 0
\* holds all three channels of the new image's pixel afterwards, whatever
\* the two mask values are.
C8_EmptyCanvasTakesNew ==
    (pc = "blend_return" /\ ret = 0)
        => \A x \in 1 .. Len(canvas) :
              canvasIn[x][1] = 0 => canvas[x] = newImage[x]

\* a new pixel with mask 1 copied onto an empty canvas pixel whose other
\* channels and mask were not zero
C8_Witness ==
    /\ pc = "blend_return" /\ ret = 0
    /\ \E x \in 1 .. Len(canvas) :
          /\ canvasIn[x] = <<0, 7, 9>> /\ canvasMask[x] = <<1, 2>>
          /\ newImage[x] = <<200, 100, 255>> /\ newMask[x] = <<1, 1>>
          /\ canvas[x] = <<200, 100, 255>>

----------------------------------------------------------------------------
(* Integer-valued result of estimateHomography, checked under SpecEst *)

\* the whole number n (pixels) is the real q (sub-pixel units) truncated
\* toward zero: n lies between 0 and q, less than one pixel from q
IsTruncationOf(n, q) ==
    /\ Abs(Px(n)) <= Abs(q)
    /\ Abs(q) - Abs(Px(n)) < SubPx
    /\ (n > 0 => q > 0) /\ (n < 0 => q < 0)

====
